---- MODULE Spec2Model ----
(***************************************************************************)
(* Model of src/main.js (class BaleApp): the Electron main process of the  *)
(* Bale desktop shell.  The state machine covers start-up (single-instance *)
(* lock, 'ready'), the window / tray handlers and the update flow          *)
(* checkForUpdates -> downloadAndInstallUpdate.  Every handler that the    *)
(* event loop runs to completion is one action; every await / promise /    *)
(* callback boundary is a value of the variable upd.                       *)
(***************************************************************************)
EXTENDS Integers, Sequences, FiniteSets, TLC

(* ------------------------------ bounds --------------------------------- *)
\* largest number used as a major / minor / patch component
MaxVer == 1
\* number of distinct local save paths the download step may return
NumPaths == 2
\* number of distinct download links a manifest may carry
NumLinks == 1
\* number of 'create-notification' messages the hosted page sends
MaxMsgs == 1

VARIABLES
    proc,            \* "start" | "waitReady" | "running" | "exited"
    exitBy,          \* "none" | "nolock" | "tray" | "update": who called app.exit
    mainWindow,      \* "null" | "window"            (this.mainWindow)
    visible,         \* mainWindow.isVisible()
    tray,            \* "null" | "tray"              (this.tray)
    currentVersion,  \* app.getVersion()
    upd,             \* position of the update flow (see UpdStates)
    cycles,          \* number of calls of checkForUpdates
    latestData,      \* parsed manifest body, NoData before it is parsed
    userResponse,    \* userResponse.response, -1 before the prompt is answered
    dlLink,          \* argument handed to download(), NoLink before
    dlPath,          \* downloadItem.getSavePath(), 0 before the download resolves
    execPath,        \* path interpolated into the exec command, 0 before
    fetches,         \* number of fetch() calls
    prompts,         \* number of consent prompts shown
    downloads,       \* number of download() calls
    execs,           \* number of exec() calls
    notices,         \* sequence of the non-awaited message boxes shown
    open,            \* the message boxes of notices not dismissed yet
    logs,            \* set of console.error messages written
    execError,       \* outcome of exec: "none" | "no" | "yes" | "threw"
    failure,         \* "none" | "manifest" | "download" | "launch"
    steps,           \* the steps of the cycle in the order they happened
    permReq,         \* the permission of the last permission request, "none" before
    permCallbacks,   \* the arguments callback was called with for that request
    ipcMsgs,         \* number of 'create-notification' messages received
    osNotifs,        \* number of OS notifications shown
    notifFailed      \* number of messages whose handler caught an error

shellVars == <<mainWindow, visible, tray>>
dataVars  == <<latestData, userResponse, dlLink, dlPath, execPath, execError>>
countVars == <<fetches, prompts, downloads, execs>>
pageVars  == <<permReq, permCallbacks, ipcMsgs, osNotifs, notifFailed>>
vars == <<proc, exitBy, mainWindow, visible, tray, currentVersion, upd, cycles,
          latestData, userResponse, dlLink, dlPath, execPath, execError,
          fetches, prompts, downloads, execs, notices, open, logs, failure, steps,
          permReq, permCallbacks, ipcMsgs, osNotifs, notifFailed>>

UpdStates == {"idle", "awaitFetch", "awaitJson", "awaitPrompt",
              "awaitDownload", "awaitExec", "done"}

(* ----------------------------- versions -------------------------------- *)
\* A version string is a sequence of tokens: numbers written in decimal, the
\* dot, and "x" standing for any character that is not part of a number.
Digits == {ToString(n) : n \in 0..MaxVer}
Tokens == Digits \cup {".", "x"}

Str(chars) == [type |-> "string", chars |-> chars]
Undefined  == [type |-> "undefined", chars |-> <<>>]

\* well-formed MAJOR.MINOR.PATCH strings
ValidVersions ==
    {Str(<<a, ".", b, ".", c>>) : a \in Digits, b \in Digits, c \in Digits}
\* versions of the running build (app.getVersion()): n.n.n for each number;
\* the manifest's version ranges over every version around them
CurrentVersions == {Str(<<a, ".", a, ".", a>>) : a \in Digits}
\* values the manifest's version field may hold
RawVersions ==
    {Str(<<a, ".", b, ".", c>>) : a \in Tokens \ {"."}, b \in Digits, c \in Tokens \ {"."}}
    \cup {Str(<<a, ".", b>>) : a \in Digits, b \in Digits}
    \cup {Str(<<>>), Undefined}

Paths == 1..NumPaths
NoLink == [type |-> "none", id |-> 0]
Links == {[type |-> "string", id |-> i] : i \in 1..NumLinks}
            \cup {[type |-> "undefined", id |-> 0]}

NoData   == [kind |-> "none",   version |-> Undefined, latest |-> NoLink]
NullData == [kind |-> "null",   version |-> Undefined, latest |-> NoLink]
Manifests ==
    {[kind |-> "object", version |-> v, latest |-> l] : v \in RawVersions, l \in Links}
    \cup {NullData}

(* ------------------------- semver.gt (line 183) ------------------------ *)
\* new SemVer(v) throws a TypeError unless v is a string of the form
\* MAJOR.MINOR.PATCH with numeric components
SemverValid(v) ==
    /\ v.type = "string"
    /\ Len(v.chars) = 5
    /\ v.chars[2] = "." /\ v.chars[4] = "."
    /\ v.chars[1] \in Digits /\ v.chars[3] \in Digits /\ v.chars[5] \in Digits

\* the number a numeric token denotes
ParseNum(tok) == CHOOSE n \in 0..MaxVer : ToString(n) = tok

SemverParse(v) ==
    [major |-> ParseNum(v.chars[1]), minor |-> ParseNum(v.chars[3]),
     patch |-> ParseNum(v.chars[5])]

CompareIdentifiers(a, b) == IF a = b THEN 0 ELSE IF a < b THEN -1 ELSE 1

\* SemVer.compareMain: the first component that differs decides
CompareMain(x, y) ==
    IF CompareIdentifiers(x.major, y.major) # 0
    THEN CompareIdentifiers(x.major, y.major)
    ELSE IF CompareIdentifiers(x.minor, y.minor) # 0
         THEN CompareIdentifiers(x.minor, y.minor)
         ELSE CompareIdentifiers(x.patch, y.patch)

\* semver.gt(a, b) throws when either argument is not a valid version
SemverGtThrows(a, b) == ~SemverValid(a) \/ ~SemverValid(b)

SemverGtMajorOnly(a, b) ==
    CompareIdentifiers(SemverParse(a).major, SemverParse(b).major) > 0
SemverGtLoose(a, b) == CompareMain(SemverParse(a), SemverParse(b)) >= 0
SemverGt(a, b) == CompareMain(SemverParse(a), SemverParse(b)) > 0

(* ------------------------------- Init ---------------------------------- *)
Init ==
    /\ proc = "start"
    /\ exitBy = "none"
    /\ mainWindow = "null"
    /\ visible = FALSE
    /\ tray = "null"
    /\ currentVersion \in CurrentVersions
    /\ upd = "idle"
    /\ cycles = 0
    /\ latestData = NoData
    /\ userResponse = -1
    /\ dlLink = NoLink
    /\ dlPath = 0
    /\ execPath = 0
    /\ execError = "none"
    /\ fetches = 0 /\ prompts = 0 /\ downloads = 0 /\ execs = 0
    /\ notices = <<>>
    /\ open = {}
    /\ logs = {}
    /\ failure = "none"
    /\ steps = <<>>
    /\ permReq = "none"
    /\ permCallbacks = <<>>
    /\ ipcMsgs = 0 /\ osNotifs = 0 /\ notifFailed = 0

(* -------------------- constructor / initApp (152-173) ------------------ *)
\* new BaleApp(): requestSingleInstanceLock; without the lock app.exit() and
\* return before any handler is registered
InitAppNoReturn ==
    /\ proc = "start"
    /\ \E gotTheLock \in BOOLEAN :
         /\ proc' = "waitReady"
         /\ exitBy' = IF gotTheLock THEN exitBy ELSE "nolock"
    /\ UNCHANGED pageVars
    /\ UNCHANGED <<shellVars, currentVersion, upd, cycles, dataVars, countVars,
                   notices, open, logs, failure, steps>>
InitApp ==
    /\ proc = "start"
    /\ \E gotTheLock \in BOOLEAN :
         IF ~gotTheLock
         THEN /\ proc' = "exited"
              /\ exitBy' = "nolock"
         ELSE /\ proc' = "waitReady"
              /\ exitBy' = exitBy
    /\ UNCHANGED pageVars
    /\ UNCHANGED <<shellVars, currentVersion, upd, cycles, dataVars, countVars,
                   notices, open, logs, failure, steps>>

\* checkForUpdates up to its first await: the fetch is issued
StartCheck ==
    /\ cycles' = cycles + 1
    /\ fetches' = fetches + 1
    /\ upd' = "awaitFetch"
    /\ steps' = Append(steps, "fetch")

\* the 'ready' handler: createWindow, createTray, checkForUpdates
\* (Electron emits 'ready' once per process, hence the guard on proc)
OnReadyTwice ==
    /\ proc = "waitReady"
    /\ mainWindow' = "window"
    /\ visible' = TRUE
    /\ tray' = "tray"
    /\ proc' = "running"
    /\ cycles' = cycles + 2
    /\ fetches' = fetches + 2
    /\ upd' = "awaitFetch"
    /\ steps' = steps \o <<"fetch", "fetch">>
    /\ UNCHANGED pageVars
    /\ UNCHANGED <<exitBy, currentVersion, dataVars, prompts, downloads, execs,
                   notices, open, logs, failure>>
OnReady ==
    /\ proc = "waitReady"
    /\ mainWindow' = "window"
    /\ visible' = TRUE
    /\ tray' = "tray"
    /\ proc' = "running"
    /\ StartCheck
    /\ UNCHANGED pageVars
    /\ UNCHANGED <<exitBy, currentVersion, dataVars, prompts, downloads, execs,
                   notices, open, logs, failure>>

(* ---------------------- checkForUpdates (175-200) --------------------- *)
\* the catch block of checkForUpdates: console.error only
CatchCheckErrorNotice ==
    /\ logs' = logs \cup {"Error checking for updates"}
    /\ notices' = Append(notices, "error")
    /\ open' = open \cup {"error"}
    /\ failure' = "manifest"
    /\ upd' = "done"
CatchCheckError ==
    /\ logs' = logs \cup {"Error checking for updates"}
    /\ notices' = notices
    /\ open' = open
    /\ failure' = "manifest"
    /\ upd' = "done"

\* await fetch(...) resolves with a response
FetchResolve ==
    /\ proc = "running" /\ upd = "awaitFetch"
    /\ upd' = "awaitJson"
    /\ UNCHANGED pageVars
    /\ UNCHANGED <<proc, exitBy, shellVars, currentVersion, cycles, dataVars,
                   countVars, notices, open, logs, failure, steps>>

\* await fetch(...) rejects (network error)
FetchReject ==
    /\ proc = "running" /\ upd = "awaitFetch"
    /\ CatchCheckError
    /\ UNCHANGED pageVars
    /\ UNCHANGED <<proc, exitBy, shellVars, currentVersion, cycles, dataVars,
                   countVars, steps>>

\* await response.json() rejects (the body is not JSON)
JsonReject ==
    /\ proc = "running" /\ upd = "awaitJson"
    /\ CatchCheckError
    /\ UNCHANGED pageVars
    /\ UNCHANGED <<proc, exitBy, shellVars, currentVersion, cycles, dataVars,
                   countVars, steps>>

\* await response.json() resolves with data; lines 180-191 run up to the
\* await of the consent prompt
JsonResolve(data) ==
    /\ proc = "running" /\ upd = "awaitJson"
    /\ latestData' = data
    /\ IF data.kind = "null"
       THEN \* latestData.version throws a TypeError
            /\ CatchCheckError
            /\ steps' = Append(steps, "fetched")
            /\ UNCHANGED prompts
       ELSE IF SemverGtThrows(data.version, currentVersion)
       THEN /\ CatchCheckError
            /\ steps' = steps \o <<"fetched", "compare">>
            /\ UNCHANGED prompts
       ELSE IF SemverGt(data.version, currentVersion)
       THEN /\ prompts' = prompts + 1
            /\ upd' = "awaitPrompt"
            /\ steps' = steps \o <<"fetched", "compare", "prompt">>
            /\ UNCHANGED <<logs, failure, notices, open>>
       ELSE /\ upd' = "done"
            /\ steps' = steps \o <<"fetched", "compare">>
            /\ UNCHANGED <<prompts, logs, failure, notices, open>>
    /\ UNCHANGED pageVars
    /\ UNCHANGED <<proc, exitBy, shellVars, currentVersion, cycles, userResponse,
                   dlLink, dlPath, execPath, execError, fetches, downloads, execs>>

\* userResponse.response === 0
AcceptedSwapped(response) == response = 1
Accepted(response) == response = 0

\* downloadAndInstallUpdate(downloadLink), lines 203-209: the 'downloading'
\* message box is not awaited, then download() is called
DownloadAndInstallUpdateAwaitNotice(downloadLink) ==
    /\ notices' = Append(notices, "downloading")
    /\ open' = open \cup {"downloading"}
    /\ downloads' = downloads
    /\ dlLink' = dlLink
    /\ upd' = "awaitNotice"
DownloadAndInstallUpdate(downloadLink) ==
    /\ notices' = Append(notices, "downloading")
    /\ open' = open \cup {"downloading"}
    /\ downloads' = downloads + 1
    /\ dlLink' = downloadLink
    /\ upd' = "awaitDownload"

\* the consent prompt is answered with button index response
PromptAnswer(response) ==
    /\ proc = "running" /\ upd = "awaitPrompt"
    /\ userResponse' = response
    /\ IF Accepted(response)
       THEN /\ DownloadAndInstallUpdate(latestData.latest)
            /\ steps' = steps \o <<"answered", "download">>
       ELSE /\ upd' = "done"
            /\ steps' = Append(steps, "answered")
            /\ UNCHANGED <<notices, open, downloads, dlLink>>
    /\ UNCHANGED pageVars
    /\ UNCHANGED <<proc, exitBy, shellVars, currentVersion, cycles, latestData,
                   dlPath, execPath, execError, fetches, prompts, execs, logs,
                   failure>>

(* ------------------ downloadAndInstallUpdate (202-236) ----------------- *)
\* the .catch handler of the download promise chain
\* (shown: the notices shown before the handler runs)
Range(seq) == {seq[i] : i \in 1..Len(seq)}
CatchDownloadErrorSilent(shown) ==
    /\ logs' = logs \cup {"Error downloading update"}
    /\ notices' = shown
    /\ open' = open \cup (Range(shown) \ Range(notices))
    /\ upd' = "done"
CatchDownloadError(shown) ==
    /\ logs' = logs \cup {"Error downloading update"}
    /\ notices' = Append(shown, "error")
    /\ open' = open \cup (Range(shown) \ Range(notices)) \cup {"error"}
    /\ upd' = "done"

\* const filePath = downloadItem.getSavePath()
FilePathFixed(savePath) == 1
FilePath(savePath) == savePath

\* the download promise resolves: the 'download complete' box is shown (not
\* awaited), the save path is read and exec is called.  exec either returns
\* (its callback comes later) or throws synchronously, which the .catch
\* chained after .then handles
DownloadResolveExitEarly(savePath, execThrows) ==
    /\ proc = "running" /\ upd = "awaitDownload"
    /\ dlPath' = savePath
    /\ execs' = execs + 1
    /\ execPath' = FilePath(savePath)
    /\ steps' = steps \o <<"downloaded", "launch", "exit">>
    /\ notices' = Append(notices, "complete")
    /\ open' = open \cup {"complete"}
    /\ upd' = "done"
    /\ proc' = "exited"
    /\ exitBy' = "update"
    /\ UNCHANGED pageVars
    /\ UNCHANGED <<logs, failure, execError, shellVars, currentVersion, cycles,
                   latestData, userResponse, dlLink, fetches, prompts, downloads>>
DownloadResolve(savePath, execThrows) ==
    /\ proc = "running" /\ upd = "awaitDownload"
    /\ dlPath' = savePath
    /\ execs' = execs + 1
    /\ execPath' = FilePath(savePath)
    /\ steps' = steps \o <<"downloaded", "launch">>
    /\ IF execThrows
       THEN /\ CatchDownloadError(Append(notices, "complete"))
            /\ failure' = "launch"
            /\ execError' = "threw"
       ELSE /\ upd' = "awaitExec"
            /\ notices' = Append(notices, "complete")
            /\ open' = open \cup {"complete"}
            /\ UNCHANGED <<logs, failure, execError>>
    /\ UNCHANGED pageVars
    /\ UNCHANGED <<proc, exitBy, shellVars, currentVersion, cycles, latestData,
                   userResponse, dlLink, fetches, prompts, downloads>>

\* the download promise rejects
DownloadRejectRetry ==
    /\ proc = "running" /\ upd = "awaitDownload"
    /\ logs' = logs \cup {"Error downloading update"}
    /\ notices' = Append(notices, "error")
    /\ open' = open \cup {"error"}
    /\ failure' = "download"
    /\ downloads' = IF downloads < 2 THEN downloads + 1 ELSE downloads
    /\ upd' = IF downloads < 2 THEN "awaitDownload" ELSE "done"
    /\ UNCHANGED pageVars
    /\ UNCHANGED <<proc, exitBy, shellVars, currentVersion, cycles, dataVars,
                   fetches, prompts, execs, steps>>
DownloadReject ==
    /\ proc = "running" /\ upd = "awaitDownload"
    /\ CatchDownloadError(notices)
    /\ failure' = "download"
    /\ UNCHANGED pageVars
    /\ UNCHANGED <<proc, exitBy, shellVars, currentVersion, cycles, dataVars,
                   countVars, steps>>

\* the else branch of the exec callback: app.exit()
ExitsAlways(error) == TRUE
ExitsOnLaunch(error) == ~error

\* the exec callback (219-226)
ExecCallback(error) ==
    /\ proc = "running" /\ upd = "awaitExec"
    /\ upd' = "done"
    /\ execError' = IF error THEN "yes" ELSE "no"
    /\ IF ExitsOnLaunch(error)
       THEN /\ proc' = "exited"
            /\ exitBy' = "update"
            /\ steps' = steps \o <<"launched", "exit">>
       ELSE /\ steps' = Append(steps, "launched")
            /\ UNCHANGED <<proc, exitBy>>
    /\ IF error
       THEN /\ logs' = logs \cup {"Error launching installer"}
            /\ failure' = "launch"
       ELSE UNCHANGED <<logs, failure>>
    /\ UNCHANGED pageVars
    /\ UNCHANGED <<shellVars, currentVersion, cycles, latestData, userResponse,
                   dlLink, dlPath, execPath, countVars, notices, open>>

(* ------------------- window and tray handlers (121-146) ---------------- *)
\* app.isQuiting is never assigned anywhere in main.js
isQuitingSet == TRUE
isQuiting == FALSE

\* tray 'click': toggle the window
TrayClick ==
    /\ proc = "running" /\ tray = "tray"
    /\ visible' = ~visible
    /\ UNCHANGED pageVars
    /\ UNCHANGED <<proc, exitBy, mainWindow, tray, currentVersion, upd, cycles,
                   dataVars, countVars, notices, open, logs, failure, steps>>

\* tray menu item 'show'
TrayShow ==
    /\ proc = "running" /\ tray = "tray"
    /\ visible' = TRUE
    /\ UNCHANGED pageVars
    /\ UNCHANGED <<proc, exitBy, mainWindow, tray, currentVersion, upd, cycles,
                   dataVars, countVars, notices, open, logs, failure, steps>>

\* tray menu item 'exit': app.exit()
TrayExit ==
    /\ proc = "running" /\ tray = "tray"
    /\ proc' = "exited"
    /\ exitBy' = "tray"
    /\ UNCHANGED pageVars
    /\ UNCHANGED <<shellVars, currentVersion, upd, cycles, dataVars, countVars,
                   notices, open, logs, failure, steps>>

\* the user dismisses one of the message boxes shown without await
\* (203, 211, 230): its promise resolves and nothing is chained to it
DismissNotice(box) ==
    /\ proc = "running"
    /\ box \in open
    /\ open' = open \ {box}
    /\ UNCHANGED pageVars
    /\ UNCHANGED <<proc, exitBy, shellVars, currentVersion, upd, cycles, dataVars,
                   countVars, notices, logs, failure, steps>>

\* window 'close': cancelled and turned into hide unless quitting
WindowClose ==
    /\ proc = "running" /\ mainWindow = "window"
    /\ IF ~isQuiting
       THEN /\ visible' = FALSE
            /\ UNCHANGED mainWindow
       ELSE /\ mainWindow' = "null"
            /\ visible' = FALSE
    /\ UNCHANGED pageVars
    /\ UNCHANGED <<proc, exitBy, tray, currentVersion, upd, cycles, dataVars,
                   countVars, notices, open, logs, failure, steps>>

(* ---------------------- setupPermissions (84-92) ----------------------- *)
\* permissions the hosted page may ask for
Permissions == {"notifications", "media"}

\* the argument the handler passes to callback
GrantAll(permission) == TRUE
Grant(permission) == permission = "notifications"

\* the permission request handler installed by createWindow
PermissionRequest(permission) ==
    /\ proc = "running" /\ mainWindow = "window"
    /\ permReq' = permission
    /\ permCallbacks' = <<Grant(permission)>>
    /\ UNCHANGED <<proc, exitBy, shellVars, currentVersion, upd, cycles, dataVars,
                   countVars, notices, open, logs, failure, steps,
                   ipcMsgs, osNotifs, notifFailed>>

(* ------------------ setupNotificationListener (58-82) ------------------ *)
CreateNotificationTwice(throws) ==
    /\ proc = "running" /\ mainWindow = "window"
    /\ ipcMsgs < MaxMsgs
    /\ ipcMsgs' = ipcMsgs + 1
    /\ osNotifs' = osNotifs + 2
    /\ UNCHANGED <<proc, exitBy, shellVars, currentVersion, upd, cycles, dataVars,
                   countVars, notices, open, logs, failure, steps,
                   permReq, permCallbacks, notifFailed>>
\* the 'create-notification' listener installed by createWindow: new
\* Notification, show, on('click'); throws says whether one of them throws
\* before the notification is on screen, which the try/catch logs
CreateNotification(throws) ==
    /\ proc = "running" /\ mainWindow = "window"
    /\ ipcMsgs < MaxMsgs
    /\ ipcMsgs' = ipcMsgs + 1
    /\ IF throws
       THEN /\ logs' = logs \cup {"Error creating notification"}
            /\ notifFailed' = notifFailed + 1
            /\ UNCHANGED osNotifs
       ELSE /\ osNotifs' = osNotifs + 1
            /\ UNCHANGED <<logs, notifFailed>>
    /\ UNCHANGED <<proc, exitBy, shellVars, currentVersion, upd, cycles, dataVars,
                   countVars, notices, open, failure, steps, permReq, permCallbacks>>

\* the 'click' handler of a shown notification: this.mainWindow.show()
NotificationClick ==
    /\ proc = "running" /\ osNotifs >= 1
    /\ visible' = TRUE
    /\ UNCHANGED <<proc, exitBy, mainWindow, tray, currentVersion, upd, cycles,
                   dataVars, countVars, notices, open, logs, failure, steps, pageVars>>

(* ------------------------------ behaviour ------------------------------ *)
Next ==
    \/ InitApp
    \/ OnReady
    \/ FetchResolve
    \/ FetchReject
    \/ JsonReject
    \/ \E data \in Manifests : JsonResolve(data)
    \/ \E response \in {0, 1} : PromptAnswer(response)
    \/ \E savePath \in Paths, execThrows \in BOOLEAN : DownloadResolve(savePath, execThrows)
    \/ DownloadReject
    \/ \E error \in BOOLEAN : ExecCallback(error)
    \/ TrayClick
    \/ TrayShow
    \/ TrayExit
    \/ WindowClose
    \/ \E box \in {"downloading", "complete", "error"} : DismissNotice(box)
    \/ \E permission \in Permissions : PermissionRequest(permission)
    \/ \E throws \in BOOLEAN : CreateNotification(throws)
    \/ NotificationClick

Spec == Init /\ [][Next]_vars

\* the continuations of the update flow: each is the return of an external
\* call (fetch, response.json, the consent prompt, download, exec)
FlowStep ==
    \/ FetchResolve
    \/ FetchReject
    \/ JsonReject
    \/ \E data \in Manifests : JsonResolve(data)
    \/ \E response \in {0, 1} : PromptAnswer(response)
    \/ \E savePath \in Paths, execThrows \in BOOLEAN : DownloadResolve(savePath, execThrows)
    \/ DownloadReject
    \/ \E error \in BOOLEAN : ExecCallback(error)

\* every external call the flow waits for eventually returns
FairSpec == Spec /\ WF_vars(FlowStep)

TypeOK ==
    /\ proc \in {"start", "waitReady", "running", "exited"}
    /\ exitBy \in {"none", "nolock", "tray", "update"}
    /\ mainWindow \in {"null", "window"}
    /\ visible \in BOOLEAN
    /\ tray \in {"null", "tray"}
    /\ currentVersion \in CurrentVersions
    /\ upd \in UpdStates
    /\ cycles \in 0..1
    /\ latestData \in Manifests \cup {NoData}
    /\ userResponse \in {-1, 0, 1}
    /\ dlLink \in Links \cup {NoLink}
    /\ dlPath \in Paths \cup {0}
    /\ execPath \in Paths \cup {0}
    /\ execError \in {"none", "no", "yes", "threw"}
    /\ failure \in {"none", "manifest", "download", "launch"}
    /\ open \subseteq Range(notices)
    /\ permReq \in Permissions \cup {"none"}
    /\ ipcMsgs \in 0..MaxMsgs /\ osNotifs \in 0..MaxMsgs /\ notifFailed \in 0..MaxMsgs

(* ------------------------------- claims -------------------------------- *)
\* Semantic-version precedence stated on the numbers themselves: a.b.c read
\* as a number in base MaxVer + 1
Weight(v) ==
    LET B == MaxVer + 1
        n == SemverParse(v)
    IN  n.major * B * B + n.minor * B + n.patch

\* the manifest carries a valid version strictly greater than the running one
ManifestNewer ==
    /\ latestData.kind = "object"
    /\ SemverValid(latestData.version)
    /\ Weight(latestData.version) > Weight(currentVersion)

\* the manifest body has been parsed in this cycle
ManifestSeen == latestData # NoData

\* C1: whenever the manifest version is not strictly greater than the current
\* version (equal, lower or unparseable), no consent prompt has been shown and
\* the download step has not been invoked.
C1_NoPromptUnlessNewer ==
    (ManifestSeen /\ ~ManifestNewer) =>
        (prompts = 0 /\ downloads = 0 /\ dlLink = NoLink /\ upd = "done")
C1_Witness ==
    /\ latestData.kind = "object"
    /\ latestData.version = currentVersion
    /\ upd = "done"

\* C2: when the user chose the second button, the download step has not been
\* invoked, no notice has been shown, no installer has been launched and the
\* update flow has not ended the process.
C2_DeclineNoSideEffects ==
    (userResponse = 1) =>
        (downloads = 0 /\ notices = <<>> /\ execs = 0 /\ exitBy # "update"
         /\ upd = "done")
C2_Witness ==
    userResponse = 1 /\ upd = "done" /\ proc = "running"

\* C3: a manifest with a valid, strictly greater version has produced exactly
\* one consent prompt, and never is there a second prompt, whatever the outcome.
C3_ExactlyOnePrompt ==
    /\ prompts <= 1
    /\ (ManifestSeen /\ ManifestNewer) => prompts = 1
C3_Witness ==
    ManifestNewer /\ prompts = 1 /\ failure = "download" /\ upd = "done"

\* C4: once the prompt was accepted and the download resolved, exactly one
\* exec call has been made and its path is the save path of the download.
C4_OneLaunchWithSavePath ==
    /\ execs <= 1
    /\ (userResponse = 0 /\ dlPath # 0) => (execs = 1 /\ execPath = dlPath)
    /\ execs = 1 => (userResponse = 0 /\ dlPath # 0)
C4_Witness ==
    userResponse = 0 /\ dlPath = NumPaths /\ execs = 1 /\ execError = "no"

\* C5: after a manifest failure (fetch rejected, body not parseable, version
\* not a valid semantic version) there has been no prompt and no notice, no
\* download and no launch, the update flow has not ended the process, and the
\* error has been logged.
C5_ManifestFailureSilent ==
    (failure = "manifest") =>
        /\ prompts = 0 /\ notices = <<>> /\ downloads = 0 /\ execs = 0
        /\ exitBy # "update"
        /\ logs \ {"Error creating notification"} = {"Error checking for updates"}
C5_Witness ==
    /\ failure = "manifest"
    /\ latestData.kind = "object"
    /\ ~SemverValid(latestData.version)
    /\ proc = "running"

\* C6: after the download promise rejected, an error notice has been shown,
\* exec has not been called and the process runs on (only the tray's exit
\* item can still end it).
C6_DownloadFailure ==
    (failure = "download") =>
        /\ notices = <<"downloading", "error">>
        /\ execs = 0
        /\ exitBy # "update"
        /\ (proc = "running" \/ exitBy = "tray")
C6_Witness ==
    failure = "download" /\ proc = "running" /\ upd = "done"

\* C7: the update flow ends the process only after the exec callback reported
\* no error; after a failed launch the failure is logged, there is no exit by
\* the update flow, no second exec call, and the process runs on.
C7_ExitOnlyOnLaunchSuccess ==
    /\ (exitBy = "update") => (execError = "no" /\ execs = 1)
    /\ (execError \in {"yes", "threw"}) =>
          /\ (execError = "yes") => "Error launching installer" \in logs
          /\ (execError = "threw") => "Error downloading update" \in logs
          /\ exitBy # "update"
          /\ execs = 1
          /\ (proc = "running" \/ exitBy = "tray")
C7_Witness ==
    execError = "yes" /\ proc = "running" /\ upd = "done"

\* the steps of one cycle in the order the claim gives them
CycleOrder ==
    <<"fetch", "fetched", "compare", "prompt", "answered", "download",
      "downloaded", "launch", "launched", "exit">>

\* C8: the steps of the cycle happen in the order fetch, compare, prompt
\* answered, download started, download finished, launch, exit: at every
\* moment the steps taken so far are an initial part of that order.
C8_StrictlySequential ==
    /\ Len(steps) <= Len(CycleOrder)
    /\ \A i \in 1..Len(steps) : steps[i] = CycleOrder[i]
C8_Witness ==
    steps = CycleOrder /\ exitBy = "update"

C10_NoRetry ==
    [][(failure # "none") =>
          (upd = "done" /\ upd' = "done" /\ countVars' = countVars)]_vars
C10_Witness ==
    failure = "launch" /\ proc = "running" /\ visible = FALSE

\* the state of the cycle in the terms of the specification's state machine
CycleState ==
    CASE upd = "idle" -> "Idle"
      [] upd \in {"awaitFetch", "awaitJson"} -> "Checking"
      [] upd = "awaitPrompt" -> "AwaitingConsent"
      [] upd = "awaitDownload" -> "Downloading"
      [] upd = "awaitExec" -> "Installed"
      [] upd = "done" /\ failure # "none" -> "Failed"
      [] upd = "done" /\ failure = "none" /\ exitBy = "update" -> "ProcessExit"
      [] upd = "done" /\ failure = "none" /\ exitBy # "update" /\ userResponse = 1
            -> "Declined"
      [] OTHER -> "UpToDate"

TerminalStates == {"UpToDate", "Declined", "Failed", "ProcessExit"}

\* the transitions of the state machine as the specification draws it
\* (Accepted is passed through inside the handler that answers the prompt)
DrawnTransitions ==
    {<<"Idle", "Checking">>, <<"Checking", "UpToDate">>,
     <<"Checking", "AwaitingConsent">>, <<"AwaitingConsent", "Declined">>,
     <<"AwaitingConsent", "Downloading">>, <<"Downloading", "Failed">>,
     <<"Downloading", "Installed">>, <<"Installed", "ProcessExit">>}

\* the transitions the failures of the manifest check and of the launch add
FailureTransitions == {<<"Checking", "Failed">>, <<"Installed", "Failed">>}

\* C11 (as stated): a cycle moves only along the drawn transitions.
C11_OnlyDrawnTransitions ==
    [][CycleState' # CycleState => <<CycleState, CycleState'>> \in DrawnTransitions]_vars

\* C11 (amended): a cycle moves only along the drawn transitions and the two
\* failure transitions Checking -> Failed and Installed -> Failed, a Failed
\* cycle leaves the process to run on, and, every external call returning,
\* a started cycle reaches a terminal state unless the process is ended first.
C11_TerminatesInTerminalState ==
    /\ [][CycleState' # CycleState =>
            <<CycleState, CycleState'>> \in DrawnTransitions \cup FailureTransitions]_vars
    /\ [](CycleState = "Failed" => exitBy # "update")
    /\ [](upd = "done" <=> CycleState \in TerminalStates)
    /\ (cycles = 1) ~> (CycleState \in TerminalStates \/ proc = "exited")
C11_Witness ==
    CycleState = "Failed" /\ failure = "manifest" /\ proc = "running"

\* C12: the notices do not block and the consent prompt does: whenever the
\* 'downloading' box has been shown the download has been started, whenever
\* the 'download complete' box has been shown exec has been called (dismissed
\* or not in both cases), and a download has been started only after the
\* prompt was answered with the first button.
C12_NoticesDoNotBlock ==
    /\ ("downloading" \in Range(notices)) => downloads = 1
    /\ ("complete" \in Range(notices)) => execs = 1
    /\ (upd = "awaitPrompt") => (downloads = 0 /\ notices = <<>>)
    /\ (downloads >= 1) => userResponse = 0
C12_Witness ==
    exitBy = "update" /\ open = {"downloading", "complete"}

\* C13: the 'download complete' notice and the download error notice are
\* never both shown in one cycle.
C13_CompleteAndErrorExclusive ==
    ~({"complete", "error"} \subseteq Range(notices))

\* C14: exec has been called only if the manifest version was strictly
\* greater than the current one, the user accepted the prompt and the download
\* resolved; the update flow has ended the process only after such a launch
\* reported no error.
C14_LaunchOnlyWithConsent ==
    /\ (execs >= 1) =>
          (ManifestNewer /\ prompts = 1 /\ userResponse = 0 /\ downloads = 1
           /\ dlPath # 0)
    /\ (exitBy = "update") =>
          (execs = 1 /\ execError = "no" /\ ManifestNewer /\ userResponse = 0)
C14_Witness ==
    exitBy = "update" /\ execs = 1 /\ ManifestNewer /\ open = {}

\* C15: a process that did not get the single-instance lock has exited with
\* no window, no tray and no part of an update cycle, and stays that way.
C15_NoLockNoCycle ==
    (exitBy = "nolock") =>
        /\ proc = "exited"
        /\ mainWindow = "null" /\ tray = "null" /\ ~visible
        /\ cycles = 0 /\ upd = "idle" /\ steps = <<>>
        /\ fetches = 0 /\ prompts = 0 /\ downloads = 0 /\ execs = 0
        /\ notices = <<>>
C15_Witness ==
    exitBy = "nolock" /\ proc = "exited"

\* C16: close requests, tray clicks and 'show' leave the process running and
\* the window in place: a close request only hides the window, a tray click
\* toggles its visibility, an existing window is never destroyed, and the
\* process ends only by the tray's exit item or a successful update launch.
C16_WindowSurvives ==
    /\ [](proc = "running" => (mainWindow = "window" /\ tray = "tray"))
    /\ [][mainWindow = "window" => mainWindow' = "window"]_vars
    /\ [][WindowClose => (proc' = "running" /\ ~visible')]_vars
    /\ [][TrayClick => (proc' = "running" /\ visible' = ~visible)]_vars
    /\ [][TrayShow => (proc' = "running" /\ visible')]_vars
    /\ [][(proc = "running" /\ proc' # "running") =>
            \/ exitBy' = "tray"
            \/ exitBy' = "update" /\ execError' = "no"]_vars
C16_Witness ==
    proc = "running" /\ mainWindow = "window" /\ ~visible /\ upd = "awaitFetch"

\* C17: for the last permission request the handler has called callback
\* exactly once, with true if and only if the permission is 'notifications'.
C17_OnlyNotificationsGranted ==
    (permReq # "none") =>
        /\ Len(permCallbacks) = 1
        /\ permCallbacks[1] = TRUE <=> permReq = "notifications"
C17_Witness ==
    permReq = "media" /\ permCallbacks = <<FALSE>>

\* C18: every 'create-notification' message has given exactly one OS
\* notification or, when creating or showing it failed, one logged error; the
\* handler changes nothing of the window, the tray or the update cycle; and a
\* click on a notification makes the window visible.
C18_OneNotificationPerMessage ==
    /\ [](osNotifs + notifFailed = ipcMsgs)
    /\ [](notifFailed > 0 <=> "Error creating notification" \in logs)
    /\ [][ipcMsgs' # ipcMsgs =>
            UNCHANGED <<proc, exitBy, shellVars, upd, cycles, dataVars, countVars,
                        notices, open, failure, steps>>]_vars
    /\ [][NotificationClick =>
            (visible' /\ UNCHANGED <<proc, mainWindow, tray, upd>>)]_vars
C18_Witness ==
    osNotifs = 1 /\ ipcMsgs = 1 /\ visible /\ upd = "awaitPrompt"

====
